---- MODULE Spec2Model ----
(***************************************************************************)
(* The collection cycle of nvidia_gpu_exporter.go: Exporter.Collect, run   *)
(* by concurrent scrapes against a telemetry source (NVML) whose answers   *)
(* are chosen anew at every call.                                          *)
(***************************************************************************)
EXTENDS Integers, Sequences, FiniteSets, TLC

(* ------------------------------ bounds -------------------------------- *)

\* Largest device count the telemetry source reports.
MaxDevices == 2

\* Largest number of failing telemetry calls within one cycle.
MaxFaults == 2

\* How many passes of another cycle's device loop the registry's read of a
\* gauge it was sent may lag behind.
MaxLag == 0

\* The concurrent scrapes (goroutines of the HTTP server calling Collect).
Scrapers == {"s1", "s2"}

\* Answers of the telemetry source.
Versions == {"470.57"}
Handles == {"h1", "h2"}
MinorNumbers == {0, 1}
UUIDs == {"GPU-A"}
Names == {"X"}

\* The telemetry of the device behind a handle.
Reading(h) ==
    IF h = "h1"
    THEN [used |-> 100, total |-> 1000, gpu |-> 50, power |-> 5000,
          temperature |-> 60, fanSpeed |-> 30]
    ELSE [used |-> 200, total |-> 2000, gpu |-> 90, power |-> 7000,
          temperature |-> 80, fanSpeed |-> 70]

\* The series whose history the cycles keep track of.
ProbeKind == "fanspeed_percent"
ProbeLabels == <<"0", "GPU-A", "X">>

NoOne == "none"
NoPrev == [log |-> <<>>, out |-> {}, valid |-> FALSE]

(* ------------------------- metric registry ---------------------------- *)

\* The six device-scoped GaugeVec fields of Exporter.
Kinds == {"memory_used_bytes", "memory_total_bytes", "duty_cycle",
          "power_usage_milliwatts", "temperature_celsius", "fanspeed_percent"}

\* The order in which Collect sends the vectors.
KindOrder == <<"memory_used_bytes", "memory_total_bytes", "duty_cycle",
               "power_usage_milliwatts", "temperature_celsius",
               "fanspeed_percent">>

Digit == <<"0", "1", "2", "3", "4", "5", "6", "7", "8", "9">>

RECURSIVE Itoa(_)
\* strconv.Itoa for a non-negative int: its decimal digits.
Itoa(n) == IF n < 10 THEN Digit[n + 1]
           ELSE Itoa(n \div 10) \o Digit[(n % 10) + 1]

\* float64(x) of an unsigned integer: exact below 2^53, which every value
\* of the model is.
Float64(x) == x

\* The label values (minor_number, uuid, name) of one series.
LabelValues(minor, uuid, name) == <<minor, uuid, name>>

VecSetFirst(m, l, v) ==
    IF \E e \in m : e.labels = l THEN m
    ELSE m \cup {[labels |-> l, value |-> v]}

GaugeKeep(old, v) == old

VecResetKeep(m) == m

\* GaugeVec.Reset: delete every child of the vector.
VecReset(m) == {}

\* GaugeVec.WithLabelValues(l...).Set(v): get or create the child, set it.
VecSet(m, l, v) == {e \in m : e.labels # l} \cup {[labels |-> l, value |-> v]}

GaugeAdd(old, v) == old + v

\* Gauge.Set on the num_devices gauge.
GaugeSet(old, v) == v

(* ------------------------------ state --------------------------------- *)

VARIABLES
    mutex,        \* the Exporter's sync.Mutex: its holder, or NoOne
    vec,          \* kind -> the children of that GaugeVec: {[labels, value]}
    numDevicesGauge, \* the value of the num_devices gauge
    pc,           \* scraper -> its position in Collect
    frame,        \* scraper -> the locals of its Collect call
    ch,           \* scraper -> what its Collect call has sent on ch so far
    log,          \* scraper -> the telemetry answers its cycle received
    owner,        \* kind -> {[labels, by, idx]}: the running cycle (and its
                  \* device index) that wrote each child, "stale" once over
    carried,      \* scraper -> the probe series existed when it took the lock
    replay,       \* scraper -> the source repeats the previous cycle's answers
    prev,         \* answers and output of the last finished cycle
    proc,         \* the process: position of main, state of NVML, exit code
    unread        \* scraper -> the num_devices gauge it sent is still to be
                  \* read by the registry, and the count of its own cycle

vars == <<mutex, vec, numDevicesGauge, pc, frame, ch, log, owner, carried,
          replay, prev, proc, unread>>

NoFrame == [i |-> 0, numDevices |-> 0, device |-> "", minor |-> "",
            uuid |-> "", name |-> ""]

NoRead == [pending |-> FALSE, own |-> 0, lag |-> 0]

\* main has not run yet: NVML is not initialized, nothing is registered.
NoProc == [pc |-> "start", nvml |-> "off", exit |-> "running",
           registered |-> FALSE, listening |-> FALSE, collected |-> FALSE]

Init ==
    /\ proc = NoProc
    /\ unread = [s \in Scrapers |-> NoRead]
    /\ mutex = NoOne
    /\ vec = [k \in Kinds |-> {}]
    /\ numDevicesGauge = 0
    /\ pc = [s \in Scrapers |-> "idle"]
    /\ frame = [s \in Scrapers |-> NoFrame]
    /\ ch = [s \in Scrapers |-> <<>>]
    /\ log = [s \in Scrapers |-> <<>>]
    /\ owner = [k \in Kinds |-> {}]
    /\ carried = [s \in Scrapers |-> FALSE]
    /\ replay = [s \in Scrapers |-> FALSE]
    /\ prev = NoPrev


(* ------------------------- telemetry source --------------------------- *)

\* The failed answers a cycle has received so far.
Faults(s) == Cardinality({p \in DOMAIN log[s] : ~log[s][p].ok})

\* What the source may answer to the next call q (for device index idx) of
\* scraper s: a value of dom with SUCCESS, or an error code together with one
\* of the values of bad (Collect reads no value that comes with an error). A
\* replaying source repeats the answer it gave at the same point of the
\* previous cycle.
Answers(s, q, idx, dom, bad) ==
    LET p == Len(log[s]) + 1
        free == {[ok |-> TRUE, val |-> v] : v \in dom}
                \cup (IF Faults(s) < MaxFaults
                      THEN {[ok |-> FALSE, val |-> v] : v \in bad}
                      ELSE {})
    IN  IF /\ replay[s]
           /\ p <= Len(prev.log)
           /\ prev.log[p].q = q
           /\ prev.log[p].idx = idx
        THEN {[ok |-> prev.log[p].ok, val |-> prev.log[p].val]}
        ELSE free

Logged(s, q, idx, r) ==
    Append(log[s], [q |-> q, idx |-> idx, ok |-> r.ok, val |-> r.val])

(* --------------------------- control flow ----------------------------- *)

IdentityQueries == {"handle", "minor", "uuid", "name"}
FieldQueries == {"memory", "utilization", "power", "temperature", "fan"}

SuccMemoryBeforeName(q) ==
    CASE q = "driver" -> "count"
      [] q = "count" -> "loop"
      [] q = "handle" -> "minor"
      [] q = "minor" -> "uuid"
      [] q = "uuid" -> "memory"
      [] q = "memory" -> "name"
      [] q = "name" -> "utilization"
      [] q = "utilization" -> "power"
      [] q = "power" -> "temperature"
      [] q = "temperature" -> "fan"
      [] q = "fan" -> "next"

\* The statement after the one that handles the answer of query q.
Succ(q) ==
    CASE q = "driver" -> "count"
      [] q = "count" -> "loop"
      [] q = "handle" -> "minor"
      [] q = "minor" -> "uuid"
      [] q = "uuid" -> "name"
      [] q = "name" -> "memory"
      [] q = "memory" -> "utilization"
      [] q = "utilization" -> "power"
      [] q = "power" -> "temperature"
      [] q = "temperature" -> "fan"
      [] q = "fan" -> "next"

OnFailureNoSkip(q) ==
    IF q = "count" THEN "return" ELSE "proceed"

OnFailureBreak(q) ==
    CASE q = "count" -> "return"
      [] q = "handle" -> "break"
      [] q \in IdentityQueries \ {"handle"} -> "continue"
      [] OTHER -> "proceed"

OnFailureDriverFatal(q) ==
    CASE q \in {"count", "driver"} -> "return"
      [] q \in IdentityQueries -> "continue"
      [] OTHER -> "proceed"

OnFailureCountIgnored(q) ==
    IF q \in IdentityQueries THEN "continue" ELSE "proceed"

OnFailureFieldSkips(q) ==
    CASE q = "count" -> "return"
      [] q \in IdentityQueries \cup FieldQueries -> "continue"
      [] OTHER -> "proceed"

\* What Collect does when query q answers with an error: go on with the next
\* statement, `continue` with the next device, or `return`.
OnFailure(q) ==
    CASE q = "count" -> "return"
      [] q \in IdentityQueries -> "continue"
      [] OTHER -> "proceed"

OutcomeAlwaysProceeds(q, ok) == "proceed"

Outcome(q, ok) == IF ok THEN "proceed" ELSE OnFailure(q)

\* The position of Collect after the answer to query q has been handled.
PcAfter(q, ok) ==
    LET o == Outcome(q, ok)
    IN  CASE o = "return" -> "unlock"
          [] o = "break" -> "collect"
          [] o = "continue" -> "loop"
          [] o = "proceed" -> IF Succ(q) = "next" THEN "loop" ELSE Succ(q)

\* The iteration of the device loop ends (its end is reached, or `continue`):
\* i++, and the locals declared in the body go out of scope.
EndsIteration(q, ok) ==
    \/ Outcome(q, ok) = "continue"
    \/ Outcome(q, ok) = "proceed" /\ Succ(q) = "next"

FrameAfter(f, q, ok) ==
    IF EndsIteration(q, ok)
    THEN [f EXCEPT !.i = f.i + 1, !.device = "", !.minor = "", !.uuid = "",
                   !.name = ""]
    ELSE f


(* ------------------------------ emission ------------------------------ *)

\* prometheus.MustNewConstMetric(e.gpuInfo, GaugeValue, 1, driverVersion).
GpuInfoMetric(version) ==
    [metric |-> "gpu_info", type |-> "const",
     series |-> {[labels |-> <<version>>, value |-> 1]}, from |-> {}]

\* ch <- e.numDevices: the gauge itself is sent, its value is read later.
NumDevicesMetric ==
    [metric |-> "num_devices", type |-> "gauge", series |-> {}, from |-> {}]

\* GaugeVec.Collect(ch): every child of the vector, in no particular order.
VecMetrics(k) ==
    [metric |-> k, type |-> "vec", series |-> vec[k], from |-> owner[k]]

\* The series of the events sent so far, as (metric, labels, value); the
\* num_devices gauge read as it stands.
Emitted(s) ==
    UNION {
        IF ch[s][p].type = "gauge"
        THEN {<<ch[s][p].metric, <<>>, numDevicesGauge>>}
        ELSE {<<ch[s][p].metric, e.labels, e.value>> : e \in ch[s][p].series}
        : p \in DOMAIN ch[s]}

\* The device-scoped series sent so far.
DeviceSeries(s) ==
    UNION {
        IF ch[s][p].type = "vec"
        THEN {<<ch[s][p].metric, e.labels, e.value>> : e \in ch[s][p].series}
        ELSE {}
        : p \in DOMAIN ch[s]}

(* ------------------------------ actions ------------------------------- *)

CanLockAlways(m) == TRUE

\* sync.Mutex.Lock returns once nobody holds the mutex.
CanLock(m) == m = NoOne

ImmediateUnlock == FALSE

\* `defer e.Unlock()`: the mutex is released when Collect returns.
DeferUnlock == TRUE

\* A scrape arrives at the running server (its previous response is
\* complete): the registry calls Collect with a fresh channel.
Scrape(s) ==
    /\ proc.pc = "serving"
    /\ pc[s] = "idle"
    /\ ~unread[s].pending
    /\ pc' = [pc EXCEPT ![s] = "lock"]
    /\ proc' = [proc EXCEPT !.collected = TRUE]
    /\ UNCHANGED <<mutex, vec, numDevicesGauge, frame, ch, log, owner,
                   carried, replay, prev, unread>>

\* e.Lock(); defer e.Unlock()
Lock(s) ==
    /\ UNCHANGED <<proc, unread>>
    /\ pc[s] = "lock"
    /\ CanLock(mutex)
    /\ mutex' = IF DeferUnlock THEN s ELSE NoOne
    /\ pc' = [pc EXCEPT ![s] = "reset"]
    /\ carried' = [carried EXCEPT
                     ![s] = \E e \in vec[ProbeKind] : e.labels = ProbeLabels]
    /\ \E r \in (IF prev.valid THEN BOOLEAN ELSE {FALSE}) :
          /\ replay' = [replay EXCEPT ![s] = r]
          /\ prev' = IF r THEN prev ELSE NoPrev
    /\ UNCHANGED <<vec, numDevicesGauge, frame, ch, log, owner>>

\* The six Reset calls.
Reset(s) ==
    /\ UNCHANGED <<proc, unread>>
    /\ pc[s] = "reset"
    /\ vec' = [k \in Kinds |-> VecReset(vec[k])]
    /\ owner' = [k \in Kinds |-> {o \in owner[k] :
                                    \E e \in vec'[k] : e.labels = o.labels}]
    /\ pc' = [pc EXCEPT ![s] = "driver"]
    /\ UNCHANGED <<mutex, numDevicesGauge, frame, ch, log, carried, replay,
                   prev>>

\* nvml.SystemGetDriverVersion(); on success the gpu_info metric is sent.
GetDriverVersion(s) ==
    /\ UNCHANGED <<proc, unread>>
    /\ pc[s] = "driver"
    /\ \E r \in Answers(s, "driver", -1, Versions, {""}) :
          /\ log' = [log EXCEPT ![s] = Logged(s, "driver", -1, r)]
          /\ ch' = [ch EXCEPT ![s] = IF r.ok
                                     THEN Append(@, GpuInfoMetric(r.val))
                                     ELSE @]
          /\ pc' = [pc EXCEPT ![s] = PcAfter("driver", r.ok)]
    /\ UNCHANGED <<mutex, vec, numDevicesGauge, frame, owner, carried,
                   replay, prev>>

\* nvml.DeviceGetCount(); unless Collect returns, the num_devices gauge is
\* set and sent, and the device loop starts at i = 0.
GetCount(s) ==
    /\ UNCHANGED <<proc, unread>>
    /\ pc[s] = "count"
    /\ \E r \in Answers(s, "count", -1, 0..MaxDevices, 0..MaxDevices) :
          /\ log' = [log EXCEPT ![s] = Logged(s, "count", -1, r)]
          /\ pc' = [pc EXCEPT ![s] = PcAfter("count", r.ok)]
          /\ frame' = [frame EXCEPT ![s].numDevices = r.val, ![s].i = 0]
          /\ IF Outcome("count", r.ok) = "return"
             THEN UNCHANGED <<numDevicesGauge, ch>>
             ELSE /\ numDevicesGauge' = GaugeSet(numDevicesGauge,
                                                 Float64(r.val))
                  /\ ch' = [ch EXCEPT ![s] = Append(@, NumDevicesMetric)]
    /\ UNCHANGED <<mutex, vec, owner, carried, replay, prev>>

\* for ...; i < int(numDevices); ...
\* (an outstanding read of the registry lags at most MaxLag passes behind)
Loop(s) ==
    /\ pc[s] = "loop"
    /\ \A u \in Scrapers : unread[u].pending => unread[u].lag < MaxLag
    /\ unread' = [u \in Scrapers |->
                    IF unread[u].pending
                    THEN [unread[u] EXCEPT !.lag = @ + 1]
                    ELSE unread[u]]
    /\ UNCHANGED proc
    /\ pc' = [pc EXCEPT ![s] = IF frame[s].i < frame[s].numDevices
                               THEN "handle" ELSE "collect"]
    /\ UNCHANGED <<mutex, vec, numDevicesGauge, frame, ch, log, owner,
                   carried, replay, prev>>

\* The local an identity query's answer is kept in: the minor number as its
\* decimal string, the others as they are.
Local(q, v) == IF q = "minor" THEN Itoa(v) ELSE v

\* An identity query of the loop body: its answer is kept in the local
\* `field`, and an error ends the iteration.
IdentityQuery(s, q, field, dom, zero) ==
    /\ UNCHANGED <<proc, unread>>
    /\ pc[s] = q
    /\ \E r \in Answers(s, q, frame[s].i, dom, {zero}) :
          /\ log' = [log EXCEPT ![s] = Logged(s, q, frame[s].i, r)]
          /\ pc' = [pc EXCEPT ![s] = PcAfter(q, r.ok)]
          /\ frame' = [frame EXCEPT
                         ![s] = FrameAfter([@ EXCEPT ![field] = Local(q, r.val)],
                                           q, r.ok)]
    /\ UNCHANGED <<mutex, vec, numDevicesGauge, ch, owner, carried, replay,
                   prev>>

\* nvml.DeviceGetHandleByIndex(i)
GetHandle(s) == IdentityQuery(s, "handle", "device", Handles, "")

\* device.GetMinorNumber(); minor := strconv.Itoa(int(minorNumber))
GetMinorNumber(s) == IdentityQuery(s, "minor", "minor", MinorNumbers, 0)

\* device.GetUUID()
GetUUID(s) == IdentityQuery(s, "uuid", "uuid", UUIDs, "")

\* device.GetName()
GetName(s) == IdentityQuery(s, "name", "name", Names, "")


\* nvml.Memory and nvml.Utilization as far as Collect reads them.
MemoryInfo(h) == [used |-> Reading(h).used, total |-> Reading(h).total]
Utilization(h) == [gpu |-> Reading(h).gpu]

RecordedTotalFromUsed(q, val) ==
    CASE q = "memory" ->
           {[kind |-> "memory_used_bytes", value |-> Float64(val.used)],
            [kind |-> "memory_total_bytes", value |-> Float64(val.used)]}
      [] q = "utilization" ->
           {[kind |-> "duty_cycle", value |-> Float64(val.gpu)]}
      [] q = "power" ->
           {[kind |-> "power_usage_milliwatts", value |-> Float64(val)]}
      [] q = "temperature" ->
           {[kind |-> "temperature_celsius", value |-> Float64(val)]}
      [] q = "fan" ->
           {[kind |-> "fanspeed_percent", value |-> Float64(val)]}

\* The gauges Collect sets from the successful answer val of field query q.
Recorded(q, val) ==
    CASE q = "memory" ->
           {[kind |-> "memory_used_bytes", value |-> Float64(val.used)],
            [kind |-> "memory_total_bytes", value |-> Float64(val.total)]}
      [] q = "utilization" ->
           {[kind |-> "duty_cycle", value |-> Float64(val.gpu)]}
      [] q = "power" ->
           {[kind |-> "power_usage_milliwatts", value |-> Float64(val)]}
      [] q = "temperature" ->
           {[kind |-> "temperature_celsius", value |-> Float64(val)]}
      [] q = "fan" ->
           {[kind |-> "fanspeed_percent", value |-> Float64(val)]}

WrittenZeroOnError(q, ok, val) ==
    IF ok THEN Recorded(q, val)
    ELSE {[kind |-> x.kind, value |-> 0] : x \in Recorded(q, val)}

\* The if/else after a field query: the gauges are set in the else branch
\* only, the error branch logs.
Written(q, ok, val) == IF ok THEN Recorded(q, val) ELSE {}

\* A field query of the loop body: on success its gauges are set under the
\* labels of the device, on an error they are left alone.
FieldQuery(s, q, dom) ==
    /\ UNCHANGED <<proc, unread>>
    /\ pc[s] = q
    /\ \E r \in Answers(s, q, frame[s].i, dom, dom) :
          LET l == LabelValues(frame[s].minor, frame[s].uuid, frame[s].name)
              w == Written(q, r.ok, r.val)
          IN  /\ log' = [log EXCEPT ![s] = Logged(s, q, frame[s].i, r)]
              /\ pc' = [pc EXCEPT ![s] = PcAfter(q, r.ok)]
              /\ frame' = [frame EXCEPT ![s] = FrameAfter(@, q, r.ok)]
              /\ vec' = [k \in Kinds |->
                           IF \E x \in w : x.kind = k
                           THEN VecSet(vec[k], l,
                                       (CHOOSE x \in w : x.kind = k).value)
                           ELSE vec[k]]
              /\ owner' = [k \in Kinds |->
                             IF \E x \in w : x.kind = k
                             THEN {o \in owner[k] : o.labels # l}
                                  \cup {[labels |-> l, by |-> s,
                                         idx |-> frame[s].i]}
                             ELSE owner[k]]
    /\ UNCHANGED <<mutex, numDevicesGauge, ch, carried, replay, prev>>

\* device.GetMemoryInfo()
GetMemoryInfo(s) ==
    FieldQuery(s, "memory", {MemoryInfo(frame[s].device)})

\* device.GetUtilizationRates()
GetUtilizationRates(s) ==
    FieldQuery(s, "utilization", {Utilization(frame[s].device)})

\* device.GetPowerUsage()
GetPowerUsage(s) ==
    FieldQuery(s, "power", {Reading(frame[s].device).power})

\* device.GetTemperature(nvml.TEMPERATURE_GPU)
GetTemperature(s) ==
    FieldQuery(s, "temperature", {Reading(frame[s].device).temperature})

\* device.GetFanSpeed()
GetFanSpeed(s) ==
    FieldQuery(s, "fan", {Reading(frame[s].device).fanSpeed})

\* The six GaugeVec.Collect(ch) calls that end Collect.
Collect(s) ==
    /\ UNCHANGED <<proc, unread>>
    /\ pc[s] = "collect"
    /\ ch' = [ch EXCEPT ![s] = @ \o [p \in 1..Len(KindOrder) |->
                                        VecMetrics(KindOrder[p])]]
    /\ pc' = [pc EXCEPT ![s] = "unlock"]
    /\ UNCHANGED <<mutex, vec, numDevicesGauge, frame, log, owner, carried,
                   replay, prev>>

UnlockMissedOnEarlyReturn(early) == ~early

\* The deferred e.Unlock() runs on every return of Collect, the early one
\* after a failed count query included.
UnlockRuns(early) == TRUE

\* The call has sent the num_devices gauge.
NumDevicesSent(s) == \E p \in DOMAIN ch[s] : ch[s][p].type = "gauge"

\* Collect returns: the deferred Unlock runs and the call's channel, locals
\* and answers are gone. The registry, which drains the channel while Collect
\* runs, has read the num_devices gauge it was sent by now or has yet to.
Unlock(s) ==
    /\ pc[s] = "unlock"
    /\ LET early == \E p \in DOMAIN log[s] :
                        log[s][p].q = "count" /\ ~log[s][p].ok
       IN  mutex' = IF DeferUnlock /\ UnlockRuns(early) THEN NoOne ELSE mutex
    /\ \E read \in BOOLEAN :
          unread' = [unread EXCEPT
                       ![s] = IF NumDevicesSent(s) /\ ~read
                              THEN [pending |-> TRUE,
                                    own |-> frame[s].numDevices,
                                    lag |-> 0]
                              ELSE NoRead]
    /\ prev' = [log |-> log[s], out |-> Emitted(s), valid |-> TRUE]
    /\ pc' = [pc EXCEPT ![s] = "idle"]
    /\ frame' = [frame EXCEPT ![s] = NoFrame]
    /\ ch' = [ch EXCEPT ![s] = <<>>]
    /\ log' = [log EXCEPT ![s] = <<>>]
    /\ carried' = [carried EXCEPT ![s] = FALSE]
    /\ replay' = [replay EXCEPT ![s] = FALSE]
    /\ owner' = [k \in Kinds |->
                   {IF o.by = s THEN [o EXCEPT !.by = "stale"] ELSE o
                    : o \in owner[k]}]
    /\ UNCHANGED <<vec, numDevicesGauge, proc>>

\* Gauge.Write: the registry reads the num_devices gauge a scrape was sent,
\* as it stands at that moment, into the scrape's response.
WriteNumDevices(s) ==
    /\ unread[s].pending
    /\ unread' = [unread EXCEPT ![s] = NoRead]
    /\ UNCHANGED <<mutex, vec, numDevicesGauge, pc, frame, ch, log, owner,
                   carried, replay, prev, proc>>

(* ------------------------------- main --------------------------------- *)

AfterInitIgnoresError(ok) == "initialized"

\* if ret := nvml.Init(); ret != nvml.SUCCESS { ...; os.Exit(1) }
AfterInit(ok) == IF ok THEN "initialized" ELSE "exited"

\* Deferred functions run when main returns, not when os.Exit ends the
\* process.
RunsDeferred(how) == how = "return"

\* The memory of the process is gone with it.
ProcessGone ==
    /\ mutex' = NoOne
    /\ vec' = [k \in Kinds |-> {}]
    /\ numDevicesGauge' = 0
    /\ pc' = [s \in Scrapers |-> "idle"]
    /\ frame' = [s \in Scrapers |-> NoFrame]
    /\ ch' = [s \in Scrapers |-> <<>>]
    /\ log' = [s \in Scrapers |-> <<>>]
    /\ owner' = [k \in Kinds |-> {}]
    /\ carried' = [s \in Scrapers |-> FALSE]
    /\ replay' = [s \in Scrapers |-> FALSE]
    /\ prev' = NoPrev
    /\ unread' = [s \in Scrapers |-> NoRead]

\* nvml.Init(): on an error the process exits with status 1; on success the
\* shutdown of NVML is deferred.
NvmlInit ==
    /\ proc.pc = "start"
    /\ \E ok \in BOOLEAN :
          proc' = IF AfterInit(ok) = "exited"
                  THEN [proc EXCEPT !.pc = "exited", !.exit = "1"]
                  ELSE [proc EXCEPT !.pc = "initialized",
                                    !.nvml = IF ok THEN "up" ELSE "off"]
    /\ UNCHANGED <<mutex, vec, numDevicesGauge, pc, frame, ch, log, owner,
                   carried, replay, prev, unread>>

\* prometheus.MustRegister(NewExporter(logger)), the handlers, and
\* web.ListenAndServe: scrapes arrive from now on.
Serve ==
    /\ proc.pc = "initialized"
    /\ proc' = [proc EXCEPT !.pc = "serving", !.registered = TRUE,
                            !.listening = TRUE]
    /\ UNCHANGED <<mutex, vec, numDevicesGauge, pc, frame, ch, log, owner,
                   carried, replay, prev, unread>>

\* web.ListenAndServe returns: with an error (it could not start, or it
\* stopped) main logs it and calls os.Exit(1); without one main returns.
ServerReturns ==
    /\ proc.pc = "serving"
    /\ \E err \in BOOLEAN :
          LET how == IF err THEN "os.Exit" ELSE "return"
          IN  proc' = [proc EXCEPT
                         !.pc = "exited",
                         !.exit = IF err THEN "1" ELSE "0",
                         !.nvml = IF RunsDeferred(how) THEN "down" ELSE @]
    /\ ProcessGone

Next ==
    \/ NvmlInit
    \/ Serve
    \/ ServerReturns
    \/ \E s \in Scrapers :
        \/ Scrape(s)
        \/ Lock(s)
        \/ Reset(s)
        \/ GetDriverVersion(s)
        \/ GetCount(s)
        \/ Loop(s)
        \/ GetHandle(s)
        \/ GetMinorNumber(s)
        \/ GetUUID(s)
        \/ GetName(s)
        \/ GetMemoryInfo(s)
        \/ GetUtilizationRates(s)
        \/ GetPowerUsage(s)
        \/ GetTemperature(s)
        \/ GetFanSpeed(s)
        \/ Collect(s)
        \/ Unlock(s)
        \/ WriteNumDevices(s)

Spec == Init /\ [][Next]_vars


(* ----------------------- reading a cycle's answers -------------------- *)

\* Scraper s has finished its cycle's emission and not yet returned.
Finished(s) == pc[s] = "unlock"

Asked(s, q, i) ==
    \E p \in DOMAIN log[s] : log[s][p].q = q /\ log[s][p].idx = i

Ok(s, q, i) ==
    \E p \in DOMAIN log[s] :
        log[s][p].q = q /\ log[s][p].idx = i /\ log[s][p].ok

Failed(s, q, i) ==
    \E p \in DOMAIN log[s] :
        log[s][p].q = q /\ log[s][p].idx = i /\ ~log[s][p].ok

Val(s, q, i) ==
    log[s][CHOOSE p \in DOMAIN log[s] :
               log[s][p].q = q /\ log[s][p].idx = i].val

Indices == 0..(MaxDevices - 1)

\* The handle and the three identity queries of index i succeeded.
Identified(s, i) == \A q \in IdentityQueries : Ok(s, q, i)

\* The label tuple (minor_number, uuid, name) of an identified index.
Identity(s, i) == <<Itoa(Val(s, "minor", i)), Val(s, "uuid", i),
                    Val(s, "name", i)>>

IdentifiedSet(s) == {i \in Indices : Identified(s, i)}

\* The metric kinds of the series sent for label tuple l.
KindsOf(s, l) == {t[1] : t \in {x \in DeviceSeries(s) : x[2] = l}}

\* The metric kinds a field query feeds.
Feeds(q) ==
    CASE q = "memory" -> {"memory_used_bytes", "memory_total_bytes"}
      [] q = "utilization" -> {"duty_cycle"}
      [] q = "power" -> {"power_usage_milliwatts"}
      [] q = "temperature" -> {"temperature_celsius"}
      [] q = "fan" -> {"fanspeed_percent"}

\* The value the source answered for metric kind k of index i.
Queried(s, k, i) ==
    CASE k = "memory_used_bytes" -> Val(s, "memory", i).used
      [] k = "memory_total_bytes" -> Val(s, "memory", i).total
      [] k = "duty_cycle" -> Val(s, "utilization", i).gpu
      [] k = "power_usage_milliwatts" -> Val(s, "power", i)
      [] k = "temperature_celsius" -> Val(s, "temperature", i)
      [] k = "fanspeed_percent" -> Val(s, "fan", i)

\* The kinds whose field query succeeded for index i.
OkKinds(s, i) == UNION {Feeds(q) : q \in {x \in FieldQueries : Ok(s, x, i)}}

\* No other identified index of the cycle has the identity of index i.
Unique(s, i) ==
    \A j \in IdentifiedSet(s) \ {i} : Identity(s, j) # Identity(s, i)

\* Two cycles received the same answers.
SameLog(a, b) ==
    /\ Len(a) = Len(b)
    /\ \A p \in DOMAIN a :
          /\ a[p].q = b[p].q
          /\ a[p].idx = b[p].idx
          /\ a[p].ok = b[p].ok
          /\ a[p].val = b[p].val

(* ------------------------------ claims -------------------------------- *)

\* C1: the label tuples of the device-scoped series a cycle emits are
\* identities of devices whose handle and three identity queries succeeded in
\* that same cycle; nothing of an earlier cycle survives.
C1_EmittedLabelsIdentified ==
    \A s \in Scrapers :
        \A t \in DeviceSeries(s) :
            \E i \in IdentifiedSet(s) : Identity(s, i) = t[2]

\* A cycle began with the probe device's series in the vectors, did not
\* identify that device, reported another one, and emitted nothing for it.
C1_Witness ==
    \E s \in Scrapers :
        /\ Finished(s)
        /\ carried[s]
        /\ Ok(s, "count", -1)
        /\ DeviceSeries(s) # {}
        /\ \A i \in IdentifiedSet(s) : Identity(s, i) # ProbeLabels
        /\ \A t \in DeviceSeries(s) : t[2] # ProbeLabels

\* C2: at most one Collect call is between taking the lock and returning.
InCycle(s) == pc[s] \notin {"idle", "lock"}

C2_OneCycleAtATime ==
    Cardinality({s \in Scrapers : InCycle(s)}) <= 1

\* One scrape is in the middle of its device loop while the other waits for
\* the lock.
C2_Witness ==
    \E s, u \in Scrapers :
        /\ pc[s] = "power"
        /\ pc[u] = "lock"
        /\ mutex = s


\* Exactly one field query of identified index i failed, the others
\* succeeded, and no other index of the cycle shares its identity.
OneFieldFailed(s, i, q) ==
    /\ Finished(s)
    /\ Identified(s, i)
    /\ Unique(s, i)
    /\ Failed(s, q, i)
    /\ \A x \in FieldQueries \ {q} : Ok(s, x, i)

\* Every other identified device has exactly the series of its own answers.
OthersUnaffected(s, i) ==
    \A j \in IdentifiedSet(s) \ {i} :
        Unique(s, j) => KindsOf(s, Identity(s, j)) = OkKinds(s, j)

\* C3 as stated: when exactly one field query of an identified device fails,
\* exactly five of the six metric kinds have a series for that device.
C3_FiveOfSix ==
    \A s \in Scrapers : \A i \in Indices : \A q \in FieldQueries :
        OneFieldFailed(s, i, q) =>
            Cardinality(KindsOf(s, Identity(s, i))) = 5

\* C3 amended: when exactly one of the five field queries of an identified
\* device fails, exactly the metric kinds fed by that query are absent for
\* the device (both memory kinds for the memory query, one kind otherwise)
\* and every other kind is present; the other devices are unaffected. Every
\* field query of an identified device is made, whatever the others answered.
C3_FailedQueryKindsAbsent ==
    \A s \in Scrapers : \A i \in Indices :
        /\ (Finished(s) /\ Identified(s, i)) =>
               \A q \in FieldQueries : Asked(s, q, i)
        /\ \A q \in FieldQueries :
               OneFieldFailed(s, i, q) =>
                   /\ KindsOf(s, Identity(s, i)) = Kinds \ Feeds(q)
                   /\ Cardinality(KindsOf(s, Identity(s, i)))
                        = IF q = "memory" THEN 4 ELSE 5
                   /\ OthersUnaffected(s, i)

\* The memory query of device 0 alone fails; device 1 answers everything.
C3_Witness ==
    \E s \in Scrapers :
        /\ OneFieldFailed(s, 0, "memory")
        /\ Identified(s, 1)
        /\ \A x \in FieldQueries : Ok(s, x, 1)
        /\ Cardinality(KindsOf(s, Identity(s, 1))) = 6

\* C4: in a cycle whose device count query fails no device handle is
\* resolved and no device-scoped series is emitted; gpu_info is emitted in
\* that cycle iff its driver version query succeeded.
C4_CountFailureEmptiesCycle ==
    \A s \in Scrapers :
        Failed(s, "count", -1) =>
            /\ \A i \in 0..MaxDevices : ~Asked(s, "handle", i)
            /\ DeviceSeries(s) = {}
            /\ (\E p \in DOMAIN ch[s] : ch[s][p].metric = "gpu_info")
                 <=> Ok(s, "driver", -1)

\* The count query fails in a cycle that began with series of an earlier
\* cycle in the vectors and whose driver version query succeeded.
C4_Witness ==
    \E s \in Scrapers :
        /\ Finished(s)
        /\ Failed(s, "count", -1)
        /\ carried[s]
        /\ Ok(s, "driver", -1)
        /\ Emitted(s) = {<<"gpu_info", <<Val(s, "driver", -1)>>, 1>>}

\* C5: every device-scoped series a scrape is sent was written by that
\* scrape's own cycle.
C5_OwnEntriesOnly ==
    \A s \in Scrapers : \A p \in DOMAIN ch[s] :
        /\ \A o \in ch[s][p].from : o.by = s
        /\ \A e \in ch[s][p].series :
              ch[s][p].type = "vec" =>
                  \E o \in ch[s][p].from : o.labels = e.labels

\* A scrape has emitted its series while the other scrape waits for the lock,
\* and the probe series an earlier cycle had recorded is not among them.
C5_Witness ==
    \E s, u \in Scrapers :
        /\ Finished(s)
        /\ pc[u] = "lock"
        /\ carried[s]
        /\ DeviceSeries(s) # {}
        /\ \A t \in DeviceSeries(s) : ~(t[1] = ProbeKind /\ t[2] = ProbeLabels)

\* C6: a cycle that received the same answers as the cycle before it emits
\* the same metric set.
C6_SameAnswersSameOutput ==
    \A s \in Scrapers :
        (Finished(s) /\ prev.valid /\ SameLog(log[s], prev.log)) =>
            Emitted(s) = prev.out

\* Two consecutive cycles got the same answers, among them two devices, a
\* failure and a success.
C6_Witness ==
    \E s \in Scrapers :
        /\ Finished(s)
        /\ prev.valid
        /\ SameLog(log[s], prev.log)
        /\ Ok(s, "count", -1)
        /\ Val(s, "count", -1) = 2
        /\ Faults(s) > 0
        /\ DeviceSeries(s) # {}


\* C7: a gauge is only ever set for a device index whose handle and three
\* identity queries have succeeded, and under that identity; a field query is
\* only ever made for such an index. A device whose handle or identity failed
\* has no field answer recorded and contributes no series.
C7_NoIdentityNoMetrics ==
    /\ \A k \in Kinds : \A o \in owner[k] :
          o.by \in Scrapers =>
              /\ Identified(o.by, o.idx)
              /\ o.labels = Identity(o.by, o.idx)
    /\ \A s \in Scrapers : \A i \in Indices : \A q \in FieldQueries :
          Asked(s, q, i) => Identified(s, i)
    /\ \A s \in Scrapers : \A i \in Indices :
          (\E q \in IdentityQueries : Failed(s, q, i)) =>
              /\ \A q \in FieldQueries : ~Asked(s, q, i)
              /\ \A k \in Kinds : \A o \in owner[k] :
                    ~(o.by = s /\ o.idx = i)

\* The UUID query of device 0 fails after its handle and minor number were
\* read; device 1 is identified and reported.
C7_Witness ==
    \E s \in Scrapers :
        /\ Finished(s)
        /\ Ok(s, "minor", 0)
        /\ Failed(s, "uuid", 0)
        /\ Identified(s, 1)
        /\ KindsOf(s, Identity(s, 1)) = Kinds
        /\ Cardinality(DeviceSeries(s)) = 6

\* C8: gpu_info is emitted, with value 1 and the driver version as its label,
\* iff the cycle's driver version query succeeded; a failed driver version
\* query does not end the cycle: the count is queried, every enumerated index
\* is tried and the six vectors are emitted.
GpuInfoSent(s) == {p \in DOMAIN ch[s] : ch[s][p].metric = "gpu_info"}

VectorsSent(s) == {ch[s][p].metric : p \in {x \in DOMAIN ch[s] :
                                              ch[s][x].type = "vec"}}

C8_GpuInfoIffDriverVersion ==
    \A s \in Scrapers :
        /\ Asked(s, "driver", -1) =>
              IF Ok(s, "driver", -1)
              THEN /\ Cardinality(GpuInfoSent(s)) = 1
                   /\ \A p \in GpuInfoSent(s) :
                         ch[s][p].series =
                             {[labels |-> <<Val(s, "driver", -1)>>,
                               value |-> 1]}
              ELSE GpuInfoSent(s) = {}
        /\ ~Asked(s, "driver", -1) => GpuInfoSent(s) = {}
        /\ Finished(s) =>
              /\ Asked(s, "driver", -1)
              /\ Asked(s, "count", -1)
              /\ Ok(s, "count", -1) =>
                    /\ \A i \in 0..(Val(s, "count", -1) - 1) :
                          Asked(s, "handle", i)
                    /\ VectorsSent(s) = Kinds

\* The driver version query fails, and the cycle still reports a device.
C8_Witness ==
    \E s \in Scrapers :
        /\ Finished(s)
        /\ Failed(s, "driver", -1)
        /\ Ok(s, "count", -1)
        /\ GpuInfoSent(s) = {}
        /\ DeviceSeries(s) # {}

\* The handle queries of a cycle, in the order they were made.
HandleIndices(s) ==
    LET IsHandle(e) == e.q = "handle"
        hs == SelectSeq(log[s], IsHandle)
    IN  [p \in DOMAIN hs |-> hs[p].idx]

\* C9: when the count query answers N, the loop tries the indices 0..N-1,
\* each once and in ascending order, whatever fails at other indices; every
\* identified device gets all its field queries, and a series for each of
\* them that succeeds.
C9_EveryIndexTried ==
    \A s \in Scrapers :
        (Finished(s) /\ Ok(s, "count", -1)) =>
            /\ HandleIndices(s) = [p \in 1..Val(s, "count", -1) |-> p - 1]
            /\ \A j \in IdentifiedSet(s) :
                  /\ \A q \in FieldQueries : Asked(s, q, j)
                  /\ OkKinds(s, j) \subseteq KindsOf(s, Identity(s, j))

\* The handle of index 0 cannot be resolved; index 1 is tried all the same
\* and reported in full.
C9_Witness ==
    \E s \in Scrapers :
        /\ Finished(s)
        /\ Ok(s, "count", -1)
        /\ Val(s, "count", -1) = 2
        /\ Failed(s, "handle", 0)
        /\ Identified(s, 1)
        /\ KindsOf(s, Identity(s, 1)) = Kinds

\* The series the answers of a cycle call for.
Expected(s) ==
    UNION {{<<k, Identity(s, i), Queried(s, k, i)>> : k \in OkKinds(s, i)}
           : i \in IdentifiedSet(s)}

\* C10: in a cycle whose count query succeeds and whose identified devices
\* have pairwise distinct identities, the device-scoped series emitted are
\* exactly (kind, identity, queried value) for every identified device and
\* every kind whose query succeeded for it, and num_devices is emitted with
\* the enumerated count.
C10_ExactSeries ==
    \A s \in Scrapers :
        (/\ Finished(s)
         /\ Ok(s, "count", -1)
         /\ \A i \in IdentifiedSet(s) : Unique(s, i)) =>
            /\ DeviceSeries(s) = Expected(s)
            /\ <<"num_devices", <<>>, Val(s, "count", -1)>> \in Emitted(s)
            /\ \A t \in Emitted(s) :
                  t[1] = "num_devices" => t[3] = Val(s, "count", -1)

\* Two devices; device 0 (minor 0, GPU-A, X) answers used=100, total=1000,
\* duty=50, power=5000, temp=60, fan=30; only the fan speed query of device 1
\* fails: 11 device-scoped series and num_devices = 2.
C10_Witness ==
    \E s \in Scrapers :
        /\ Finished(s)
        /\ Val(s, "count", -1) = 2
        /\ Faults(s) = 1
        /\ Failed(s, "fan", 1)
        /\ Identity(s, 0) = <<"0", "GPU-A", "X">>
        /\ Identity(s, 1) = <<"1", "GPU-A", "X">>
        /\ {<<"memory_used_bytes", Identity(s, 0), 100>>,
            <<"memory_total_bytes", Identity(s, 0), 1000>>,
            <<"duty_cycle", Identity(s, 0), 50>>,
            <<"power_usage_milliwatts", Identity(s, 0), 5000>>,
            <<"temperature_celsius", Identity(s, 0), 60>>,
            <<"fanspeed_percent", Identity(s, 0), 30>>}
             \subseteq DeviceSeries(s)
        /\ Cardinality(DeviceSeries(s)) = 11
        /\ KindsOf(s, Identity(s, 1)) = Kinds \ {"fanspeed_percent"}
        /\ <<"num_devices", <<>>, 2>> \in Emitted(s)


\* C11: on every path by which the process exits after NVML was initialized,
\* NVML has been shut down before the process terminates.
C11_ShutdownAtExit ==
    (proc.pc = "exited" /\ proc.nvml # "off") => proc.nvml = "down"

\* C12: no Collect call runs unless NVML was initialized successfully; when
\* the initialization fails the process exits with a non-zero status, the
\* exporter is not registered, the server is not started and Collect is never
\* invoked.
C12_NoCollectWithoutInit ==
    /\ (\E s \in Scrapers : pc[s] # "idle") => proc.nvml = "up"
    /\ proc.collected => proc.nvml # "off"
    /\ (proc.pc = "exited" /\ proc.nvml = "off") =>
          /\ proc.exit = "1"
          /\ ~proc.registered
          /\ ~proc.listening
          /\ ~proc.collected

\* nvml.Init() failed and the process has exited with status 1.
C12_Witness ==
    /\ proc.pc = "exited"
    /\ proc.nvml = "off"
    /\ proc.exit = "1"
    /\ ~proc.collected


\* The identified indices of the cycle that resolved to label tuple l and
\* whose query for kind k succeeded.
Writers(s, k, l) ==
    {i \in IdentifiedSet(s) : Identity(s, i) = l /\ k \in OkKinds(s, i)}

Highest(S) == CHOOSE i \in S : \A j \in S : j <= i

\* C13: when several indices of a cycle resolve to the same label tuple, each
\* metric kind holds at most one series for it, with the value written by the
\* highest index whose query for that kind succeeded; a kind never has more
\* series than the cycle resolved distinct identities.
C13_LastWriteWins ==
    \A s \in Scrapers : \A k \in Kinds :
        LET of == {t \in DeviceSeries(s) : t[1] = k}
        IN  /\ \A t \in of :
                  /\ \A x \in of : x[2] = t[2] => x = t
                  /\ Writers(s, k, t[2]) # {}
                  /\ t[3] = Queried(s, k, Highest(Writers(s, k, t[2])))
            /\ Cardinality(of)
                 <= Cardinality({Identity(s, i) : i \in IdentifiedSet(s)})

\* Indices 0 and 1 resolve to the same identity but to devices with different
\* telemetry; every query succeeds and the six series carry index 1's values.
C13_Witness ==
    \E s \in Scrapers :
        /\ Finished(s)
        /\ IdentifiedSet(s) = {0, 1}
        /\ Identity(s, 0) = Identity(s, 1)
        /\ Val(s, "handle", 0) = "h1"
        /\ Val(s, "handle", 1) = "h2"
        /\ Faults(s) = 0
        /\ Cardinality(DeviceSeries(s)) = 6
        /\ <<"fanspeed_percent", Identity(s, 1), 70>> \in DeviceSeries(s)

\* C14: a field query that fails for an identified device (the only one of
\* the cycle with its identity) leaves the kinds it feeds without a series for
\* that device: no zero, no sentinel, no value of an earlier cycle.
C14_FailureIsAbsence ==
    \A s \in Scrapers : \A i \in Indices : \A q \in FieldQueries :
        (Identified(s, i) /\ Unique(s, i) /\ Failed(s, q, i)) =>
            /\ KindsOf(s, Identity(s, i)) \cap Feeds(q) = {}
            /\ \A k \in Feeds(q) : \A e \in vec[k] :
                  mutex = s => e.labels # Identity(s, i)

\* The probe device had a fan speed series when the cycle began; in this
\* cycle it is identified, its fan speed query fails, and it is reported
\* without a fan speed series.
C14_Witness ==
    \E s \in Scrapers : \E i \in Indices :
        /\ Finished(s)
        /\ carried[s]
        /\ Identified(s, i)
        /\ Unique(s, i)
        /\ Identity(s, i) = ProbeLabels
        /\ Failed(s, "fan", i)
        /\ KindsOf(s, ProbeLabels) = Kinds \ {ProbeKind}

\* C15: whenever the count query succeeds with N the num_devices gauge stands
\* at N for the rest of the cycle and is sent once, however many of the N
\* devices are skipped.
C15_RawCount ==
    \A s \in Scrapers :
        Ok(s, "count", -1) =>
            /\ numDevicesGauge = Val(s, "count", -1)
            /\ Cardinality({p \in DOMAIN ch[s] : ch[s][p].type = "gauge"}) = 1

\* Two devices are enumerated, the handle of one cannot be resolved, and
\* num_devices = 2 goes out with the series of a single device.
C15_Witness ==
    \E s \in Scrapers :
        /\ Finished(s)
        /\ Val(s, "count", -1) = 2
        /\ Failed(s, "handle", 0)
        /\ <<"num_devices", <<>>, 2>> \in Emitted(s)
        /\ Cardinality({t[2] : t \in DeviceSeries(s)}) = 1


\* The order in which the statements of Collect query the library.
QueryOrder == <<"driver", "count", "handle", "minor", "uuid", "name",
                "memory", "utilization", "power", "temperature", "fan">>

Position(q) == CHOOSE p \in DOMAIN QueryOrder : QueryOrder[p] = q

\* Answer a was received in an earlier phase than answer b, or in the same
\* per-device phase for a lower index, or for the same index by an earlier
\* statement.
Earlier(a, b) ==
    \/ a.idx < b.idx
    \/ a.idx = b.idx /\ Position(a.q) < Position(b.q)

\* C16 as stated: every metric of a cycle is published in the final emission
\* phase only, so nothing has been sent before the device loop has completed.
C16_AllPublishedLast ==
    \A s \in Scrapers : ch[s] # <<>> => pc[s] = "unlock"

\* C16, amended: the answers of a cycle arrive in the order driver version,
\* device count, then per index the identity queries followed by the field
\* queries, never stepping back; the device-scoped vectors are sent only after
\* the loop has completed, after everything else; the driver-info metric and
\* the num_devices gauge are sent as soon as their query has succeeded, before
\* the device loop.
C16_PhasesInOrder ==
    \A s \in Scrapers :
        /\ \A p, r \in DOMAIN log[s] :
              p < r => Earlier(log[s][p], log[s][r])
        /\ \A p \in DOMAIN ch[s] :
              ch[s][p].type = "vec" =>
                  /\ pc[s] = "unlock"
                  /\ Ok(s, "count", -1)
                  /\ frame[s].i = Val(s, "count", -1)
                  /\ \A r \in DOMAIN ch[s] : ch[s][r].type # "vec" => r < p
        /\ \A p \in DOMAIN ch[s] :
              ch[s][p].type = "gauge" =>
                  \A r \in DOMAIN ch[s] : ch[s][r].type = "const" => r < p
        /\ Ok(s, "driver", -1) <=> GpuInfoSent(s) # {}
        /\ Ok(s, "count", -1) <=> NumDevicesSent(s)
        /\ pc[s] \notin {"unlock", "idle"} => VectorsSent(s) = {}

\* The fan speed of the second device is about to be queried: the driver-info
\* metric and the num_devices gauge have been sent, no vector has.
C16_Witness ==
    \E s \in Scrapers :
        /\ pc[s] = "fan"
        /\ frame[s].i = 1
        /\ Len(ch[s]) = 2
        /\ ch[s][1].metric = "gpu_info"
        /\ ch[s][2].metric = "num_devices"
        /\ Len(log[s]) = 2 + 9 + 8


\* A step of scraper s inside Collect, the wait for the mutex excluded.
CycleStep(s) ==
    \/ Reset(s)
    \/ GetDriverVersion(s)
    \/ GetCount(s)
    \/ Loop(s)
    \/ GetHandle(s)
    \/ GetMinorNumber(s)
    \/ GetUUID(s)
    \/ GetName(s)
    \/ GetMemoryInfo(s)
    \/ GetUtilizationRates(s)
    \/ GetPowerUsage(s)
    \/ GetTemperature(s)
    \/ GetFanSpeed(s)
    \/ Collect(s)
    \/ Unlock(s)

\* Every native call returns and the goroutine of a scrape keeps running;
\* the registry keeps draining the channel; a goroutine waiting in
\* sync.Mutex.Lock is not starved (the mutex is handed to a waiter that has
\* waited long enough).
\* Lock, the library free to answer as it likes in the cycle that begins.
FreshLock(s) == Lock(s) /\ ~replay'[s]

FairNext ==
    \/ NvmlInit
    \/ Serve
    \/ ServerReturns
    \/ \E s \in Scrapers :
        \/ Scrape(s)
        \/ FreshLock(s)
        \/ CycleStep(s)
        \/ WriteNumDevices(s)

FairSpec ==
    /\ Init
    /\ [][FairNext]_vars
    /\ \A s \in Scrapers :
          /\ WF_vars(CycleStep(s))
          /\ WF_vars(WriteNumDevices(s))
          /\ SF_vars(FreshLock(s))

\* C17: the mutex is only ever held by a scraper inside Collect, and every
\* call of Collect, waiting for the mutex or holding it, returns with the
\* mutex released: on the early return after a failed count query as on the
\* full path, and for a scraper that found the mutex taken as well.
C17_CyclesEndAndUnlock ==
    \A s \in Scrapers :
        /\ [](mutex = s => InCycle(s))
        /\ (pc[s] # "idle") ~> (pc[s] = "idle" /\ mutex # s)

\* One scraper waits for the mutex while the other, whose count query failed,
\* is about to return early.
C17_Witness ==
    \E s, u \in Scrapers :
        /\ pc[s] = "lock"
        /\ mutex = u
        /\ pc[u] = "unlock"
        /\ Failed(u, "count", -1)


\* C18 as stated: the value the registry reads for a scrape's num_devices
\* gauge is the count of that scrape's own cycle, whenever it reads it.
C18_ReportsOwnCount ==
    \A s \in Scrapers :
        unread[s].pending => numDevicesGauge = unread[s].own

\* C19: a cycle sends the num_devices gauge if and only if its count query
\* succeeded; a cycle whose count query failed emits no num_devices series,
\* whatever an earlier cycle left in the gauge.
C19_NumDevicesIffCount ==
    \A s \in Scrapers :
        /\ NumDevicesSent(s) <=> Ok(s, "count", -1)
        /\ Failed(s, "count", -1) =>
              /\ pc[s] = "unlock"
              /\ \A t \in Emitted(s) : t[1] # "num_devices"
        /\ (Finished(s) /\ Ok(s, "count", -1)) =>
              Cardinality({t \in Emitted(s) : t[1] = "num_devices"}) = 1

\* The count query of a cycle fails while the gauge still holds the 2 of an
\* earlier cycle: gpu_info is all the cycle emits.
C19_Witness ==
    \E s \in Scrapers :
        /\ Finished(s)
        /\ Failed(s, "count", -1)
        /\ numDevicesGauge = 2
        /\ {t[1] : t \in Emitted(s)} = {"gpu_info"}

====
